---- MODULE Spec2Model ----
(***************************************************************************)
(* A model of the nonogram application OnlyNyans: the clue calculator      *)
(* (clues.js), the backtracking solver (Solver), the random puzzle         *)
(* generator (Generator in utils.js), the editable grid (grid.js), and the *)
(* three modes that use it: editor (editor.js), play (player.js) and       *)
(* random (utils.js).                                                      *)
(*                                                                         *)
(* Arrays are sequences, so the JavaScript index i is the TLA+ index i+1.  *)
(* Cell values are the program's: -1 unknown, 0 empty, 1 filled, 2 marked. *)
(***************************************************************************)
EXTENDS Integers, Sequences, FiniteSets, TLC

\* Largest grid size a solve or generate call is given.
MaxSize == 2
\* Largest maxSolutions a solve call is given.
MaxBound == 2
\* Largest maxAttempts a generate call is given.
MaxTries == 2

VARIABLES
    pc,            \* the solve call: "idle", "running", "returned", "threw"
    rowClues,      \* solve's parameter rowClues
    colClues,      \* solve's parameter colClues
    maxSolutions,  \* solve's parameter maxSolutions
    grid,          \* solve's working grid
    solutions,     \* solve's solutions array
    stack,         \* the active backtrack calls, outermost first
    ret,           \* what the backtrack call that just returned gave back
    result,        \* what solve returned
    genPc,         \* the generate call: "idle", "loop", "solving", "returned"
    genSize,       \* generate's parameter size
    maxAttempts,   \* generate's parameter maxAttempts
    attempt,       \* generate's loop counter
    candidate,     \* the grid sampled in the current pass of the loop
    examined,      \* history: result.unique of every candidate examined so far
    genRet,        \* what generate returned
    currentPuzzle, \* player.js: <<>> for null, else <<the puzzle record>>
    playerGrid,    \* player.js: <<>> for null, else <<the Grid of play mode>>
    message,       \* player.js: the text showMessage last displayed
    editorSize,    \* editor.js: editorSize
    editorGrid,    \* editor.js: <<>> for null, else <<the Grid of editor mode>>
    exported,      \* editor.js: <<>>, else <<the record exportPuzzle last wrote>>
    editorPressed, \* history: <<>>, else <<the state the mousedown not yet followed
                   \* by a mouseup applied to its cell of the editor grid>>
    randomGrid,    \* utils.js: <<>> for null, else <<the Grid of random mode>>
    randomPuzzle,  \* utils.js: <<>> for null, else <<the puzzle generated>>
    randomMessage, \* utils.js: the text showRandomMessage last displayed
    generateDisabled, \* utils.js: generateBtn.disabled
    timers,        \* the setTimeout callbacks scheduled and not yet run
    inCallback,    \* the setTimeout callback of initGenerator is running
    lineIn,        \* clues.js: the line calculateLine was last called with
    clueOut,       \* clues.js: <<>>, else <<what that call returned>>
    partialLine,   \* the line a caller of canMatchClues holds
    expected,      \* the clues a caller of canMatchClues holds
    canMatch       \* <<>>, else <<what that call returned>>

solverVars == <<pc, rowClues, colClues, maxSolutions, grid, solutions, stack, ret, result>>

genVars == <<genPc, genSize, maxAttempts, attempt, candidate, examined, genRet>>

playerVars == <<currentPuzzle, playerGrid, message>>

editorVars == <<editorSize, editorGrid, exported, editorPressed>>

randomVars == <<randomGrid, randomPuzzle, randomMessage, generateDisabled, timers, inCallback>>

lineVars == <<lineIn, clueOut, partialLine, expected, canMatch>>

\* What the solver, the generator and the play mode leave alone.
otherVars == <<editorVars, randomVars, lineVars>>

vars == <<solverVars, genVars, playerVars, otherVars>>

----------------------------------------------------------------------------
(* Utils *)

create2DArray(rows, cols, defaultValue) ==
    [r \in 1..rows |-> [c \in 1..cols |-> defaultValue]]

copy2DArray(array) ==
    [r \in 1..Len(array) |-> [c \in 1..Len(array[r]) |-> array[r][c]]]

----------------------------------------------------------------------------
(* Clues *)

\* Mutant of calculateLineFrom: the count is not reset when a run is closed.
RECURSIVE calculateLineFromNoReset(_, _, _, _)
calculateLineFromNoReset(line, i, count, clues) ==
    IF i > Len(line)
    THEN IF count > 0 THEN Append(clues, count) ELSE clues
    ELSE IF line[i] = 1
         THEN calculateLineFromNoReset(line, i + 1, count + 1, clues)
         ELSE IF count > 0
              THEN calculateLineFromNoReset(line, i + 1, count, Append(clues, count))
              ELSE calculateLineFromNoReset(line, i + 1, count, clues)

\* The scan of calculateLine from cell i on, and the last group at the end.
RECURSIVE calculateLineFrom(_, _, _, _)
calculateLineFrom(line, i, count, clues) ==
    IF i > Len(line)
    THEN IF count > 0 THEN Append(clues, count) ELSE clues
    ELSE IF line[i] = 1
         THEN calculateLineFrom(line, i + 1, count + 1, clues)
         ELSE IF count > 0
              THEN calculateLineFrom(line, i + 1, 0, Append(clues, count))
              ELSE calculateLineFrom(line, i + 1, count, clues)

\* Mutant of calculateLine: no [0] for a line without a filled cell.
calculateLineNoSentinel(line) == calculateLineFrom(line, 1, 0, <<>>)

calculateLine(line) ==
    LET clues == calculateLineFrom(line, 1, 0, <<>>)
    IN  IF Len(clues) > 0 THEN clues ELSE <<0>>

calculateRows(g) == [r \in 1..Len(g) |-> calculateLine(g[r])]

\* What an array read past the end of a row yields: a value that is no cell state.
undefined == -2

\* The column col of g as the code reads it: one entry per row of g.
columnOf(g, col) ==
    [r \in 1..Len(g) |-> IF col <= Len(g[r]) THEN g[r][col] ELSE undefined]

calculateColumns(g) == [c \in 1..Len(g) |-> calculateLine(columnOf(g, c))]

calculateAll(g) == [rowClues |-> calculateRows(g), colClues |-> calculateColumns(g)]

----------------------------------------------------------------------------
(* Solver: the pure helpers *)

\* Mutant of segmentsFrom: a -1 closes the open segment as a 0 does.
RECURSIVE segmentsFromUnknownBreaks(_, _, _, _)
segmentsFromUnknownBreaks(line, i, segments, inSegment) ==
    IF i > Len(line) THEN segments
    ELSE IF line[i] = 1
         THEN IF ~inSegment
              THEN segmentsFromUnknownBreaks(line, i + 1, Append(segments, 1), TRUE)
              ELSE segmentsFromUnknownBreaks(line, i + 1,
                       [segments EXCEPT ![Len(segments)] = @ + 1], TRUE)
         ELSE segmentsFromUnknownBreaks(line, i + 1, segments, FALSE)

\* The known filled segments of a partial line: a 0 closes the open segment,
\* a -1 neither closes nor extends it.
RECURSIVE segmentsFrom(_, _, _, _)
segmentsFrom(line, i, segments, inSegment) ==
    IF i > Len(line) THEN segments
    ELSE IF line[i] = 1
         THEN IF ~inSegment
              THEN segmentsFrom(line, i + 1, Append(segments, 1), TRUE)
              ELSE segmentsFrom(line, i + 1,
                       [segments EXCEPT ![Len(segments)] = @ + 1], TRUE)
         ELSE IF line[i] = 0
              THEN segmentsFrom(line, i + 1, segments, FALSE)
              ELSE segmentsFrom(line, i + 1, segments, inSegment)

\* Mutant of canMatchClues: the segment count is compared with >= instead of >.
canMatchCluesOffByOne(line, clues) ==
    LET segments == segmentsFrom(line, 1, <<>>, FALSE)
    IN  IF Len(segments) >= Len(clues) THEN FALSE
        ELSE \A i \in 1..Len(segments) : ~(segments[i] > clues[i])

\* Mutant of canMatchClues: a segment as long as its clue is refused as well.
canMatchCluesStrict(line, clues) ==
    LET segments == segmentsFrom(line, 1, <<>>, FALSE)
    IN  IF Len(segments) > Len(clues) THEN FALSE
        ELSE \A i \in 1..Len(segments) : ~(segments[i] >= clues[i])

canMatchClues(line, clues) ==
    LET segments == segmentsFrom(line, 1, <<>>, FALSE)
    IN  IF Len(segments) > Len(clues) THEN FALSE
        ELSE \A i \in 1..Len(segments) : ~(segments[i] > clues[i])

\* Mutant of cluesMatch: only the lengths are compared.
cluesMatchLengthOnly(clues1, clues2) == Len(clues1) = Len(clues2)

cluesMatch(clues1, clues2) ==
    IF Len(clues1) # Len(clues2) THEN FALSE
    ELSE \A i \in 1..Len(clues1) : clues1[i] = clues2[i]

\* Mutant of lineValid: a complete line gets the partial test too.
lineValidPartialOnly(line, clues) == canMatchClues(line, clues)

\* One line against its expected clue, as isValidPartial checks it.
lineValid(line, clues) ==
    IF \A i \in 1..Len(line) : line[i] # -1
    THEN cluesMatch(calculateLine(line), clues)
    ELSE canMatchClues(line, clues)

\* Mutant of isValidPartial: the column clue is read one index too far.
isValidPartialNextColumn(g, rc, cc, row, col) ==
    IF ~lineValid(g[row + 1], rc[row + 1]) THEN "false"
    ELSE IF col + 2 > Len(cc) THEN "throw"
    ELSE IF ~lineValid(columnOf(g, col + 1), cc[col + 2]) THEN "false"
    ELSE "true"

\* row and col are the code's 0-based indices.  colClues[col] is undefined
\* when colClues is too short, and reading its length throws a TypeError.
isValidPartial(g, rc, cc, row, col) ==
    IF ~lineValid(g[row + 1], rc[row + 1]) THEN "false"
    ELSE IF col + 1 > Len(cc) THEN "throw"
    ELSE IF ~lineValid(columnOf(g, col + 1), cc[col + 1]) THEN "false"
    ELSE "true"

isValidSolution(g, rc, cc) ==
    LET size == Len(g)
        badCols == {c \in 1..size :
                       \/ c > Len(cc)
                       \/ ~cluesMatch(calculateLine(columnOf(g, c)), cc[c])}
        firstBad == CHOOSE c \in badCols : \A d \in badCols : c <= d
    IN  IF \E r \in 1..size : ~cluesMatch(calculateLine(g[r]), rc[r]) THEN "false"
        ELSE IF badCols = {} THEN "true"
        ELSE IF firstBad > Len(cc) THEN "throw"
        ELSE "false"

\* Mutant of unique: any non-empty list counts as unique.
uniqueNonEmpty(sols) == Len(sols) >= 1

unique(sols) == Len(sols) = 1

\* Mutant of solvable: the test of unique, copied.
solvableIfUnique(sols) == Len(sols) = 1

\* Mutant of solvable: >= instead of >.
solvableAlways(sols) == Len(sols) >= 0

solvable(sols) == Len(sols) > 0

\* Mutant of underBound: <= instead of <.
underBoundOffByOne(sols, maxSols) == Len(sols) <= maxSols

\* The bound test of backtrack: it stops at entry when this is false, and a
\* leaf returns it as its "continue searching" answer.
underBound(sols, maxSols) == Len(sols) < maxSols

\* Mutant of Values: the loop tries Filled only.
ValuesFilledOnly == <<1>>

\* Mutant of Values: the loop tries Filled twice.
ValuesFilledTwice == <<1, 1>>

\* Mutant of Values: the loop tries Empty before Filled.
ValuesEmptyFirst == <<0, 1>>

\* The candidate values of a cell, in the order the loop tries them.
Values == <<1, 0>>

----------------------------------------------------------------------------
(* Solver: the search, one action per step of backtrack *)

size == Len(grid)

top == stack[Len(stack)]

topRow == top.pos \div size

topCol == top.pos % size

pop == SubSeq(stack, 1, Len(stack) - 1)

setTop(vi) == [stack EXCEPT ![Len(stack)].vi = vi]

\* Mutant of solveCall: the working grid starts all Empty.
solveCallEmptyGrid(rc, cc, maxSols) ==
    /\ pc' = "running"
    /\ rowClues' = rc
    /\ colClues' = cc
    /\ maxSolutions' = maxSols
    /\ grid' = create2DArray(Len(rc), Len(rc), 0)
    /\ solutions' = <<>>
    /\ stack' = <<[pos |-> 0, vi |-> 0]>>
    /\ ret' = "none"
    /\ result' = [solutions |-> <<>>, unique |-> FALSE, solvable |-> FALSE]

\* Lines 14-19 of solve: the state in which backtrack(grid, ..., 0, ...) is entered.
solveCall(rc, cc, maxSols) ==
    /\ pc' = "running"
    /\ rowClues' = rc
    /\ colClues' = cc
    /\ maxSolutions' = maxSols
    /\ grid' = create2DArray(Len(rc), Len(rc), -1)
    /\ solutions' = <<>>
    /\ stack' = <<[pos |-> 0, vi |-> 0]>>
    /\ ret' = "none"
    /\ result' = [solutions |-> <<>>, unique |-> FALSE, solvable |-> FALSE]

\* The entry of a backtrack call: the bound test, then the leaf test.
BacktrackEnter ==
    /\ pc = "running"
    /\ stack # <<>>
    /\ top.vi = 0
    /\ IF ~underBound(solutions, maxSolutions)
       THEN /\ stack' = pop
            /\ ret' = "false"
            /\ UNCHANGED <<pc, solutions>>
       ELSE IF top.pos >= size * size
       THEN LET valid == isValidSolution(grid, rowClues, colClues)
                found == IF valid = "true"
                         THEN Append(solutions, copy2DArray(grid))
                         ELSE solutions
            IN  IF valid = "throw"
                THEN /\ pc' = "threw"
                     /\ UNCHANGED <<solutions, stack, ret>>
                ELSE /\ solutions' = found
                     /\ stack' = pop
                     /\ ret' = IF underBound(found, maxSolutions) THEN "true" ELSE "false"
                     /\ UNCHANGED pc
       ELSE /\ stack' = setTop(1)
            /\ UNCHANGED <<pc, solutions, ret>>
    /\ UNCHANGED <<rowClues, colClues, maxSolutions, grid, result>>
    /\ UNCHANGED <<genVars, playerVars, otherVars>>

\* One pass of the loop over [1, 0]: assign the value, test it, and call
\* backtrack for the next position when the test passes.
TryValue ==
    /\ pc = "running"
    /\ stack # <<>>
    /\ top.vi \in 1..Len(Values)
    /\ ret = "none"
    /\ LET g == [grid EXCEPT ![topRow + 1][topCol + 1] = Values[top.vi]]
           valid == isValidPartial(g, rowClues, colClues, topRow, topCol)
       IN  /\ grid' = g
           /\ IF valid = "throw"
              THEN /\ pc' = "threw"
                   /\ UNCHANGED stack
              ELSE IF valid = "true"
              THEN /\ stack' = Append(stack, [pos |-> top.pos + 1, vi |-> 0])
                   /\ UNCHANGED pc
              ELSE /\ stack' = setTop(top.vi + 1)
                   /\ UNCHANGED pc
    /\ UNCHANGED <<rowClues, colClues, maxSolutions, solutions, ret, result>>
    /\ UNCHANGED <<genVars, playerVars, otherVars>>

\* Mutant of Resume: the loop goes on to the next value whatever was returned.
ResumeIgnoresStop ==
    /\ pc = "running"
    /\ stack # <<>>
    /\ top.vi \in 1..Len(Values)
    /\ ret # "none"
    /\ stack' = setTop(top.vi + 1)
    /\ ret' = "none"
    /\ UNCHANGED <<pc, rowClues, colClues, maxSolutions, grid, solutions, result>>
    /\ UNCHANGED <<genVars, playerVars, otherVars>>

\* The recursive call has returned into the loop: false unwinds this call
\* too, true goes on to the next value.
Resume ==
    /\ pc = "running"
    /\ stack # <<>>
    /\ top.vi \in 1..Len(Values)
    /\ ret # "none"
    /\ IF ret = "false"
       THEN /\ grid' = [grid EXCEPT ![topRow + 1][topCol + 1] = -1]
            /\ stack' = pop
            /\ ret' = "false"
       ELSE /\ stack' = setTop(top.vi + 1)
            /\ ret' = "none"
            /\ UNCHANGED grid
    /\ UNCHANGED <<pc, rowClues, colClues, maxSolutions, solutions, result>>
    /\ UNCHANGED <<genVars, playerVars, otherVars>>

\* Mutant of Undo: the cell keeps the last value tried.
UndoKeepsCell ==
    /\ pc = "running"
    /\ stack # <<>>
    /\ top.vi > Len(Values)
    /\ stack' = pop
    /\ ret' = "true"
    /\ UNCHANGED <<pc, rowClues, colClues, maxSolutions, grid, solutions, result>>
    /\ UNCHANGED <<genVars, playerVars, otherVars>>

\* Both values are tried: reset the cell and return true.
Undo ==
    /\ pc = "running"
    /\ stack # <<>>
    /\ top.vi > Len(Values)
    /\ grid' = [grid EXCEPT ![topRow + 1][topCol + 1] = -1]
    /\ stack' = pop
    /\ ret' = "true"
    /\ UNCHANGED <<pc, rowClues, colClues, maxSolutions, solutions, result>>
    /\ UNCHANGED <<genVars, playerVars, otherVars>>

\* Lines 21-25 of solve.
SolveReturn ==
    /\ pc = "running"
    /\ stack = <<>>
    /\ pc' = "returned"
    /\ result' = [solutions |-> solutions,
                  unique |-> unique(solutions),
                  solvable |-> solvable(solutions)]
    /\ UNCHANGED <<rowClues, colClues, maxSolutions, grid, solutions, stack, ret>>
    /\ UNCHANGED <<genVars, playerVars, otherVars>>

SolverStep == BacktrackEnter \/ TryValue \/ Resume \/ Undo \/ SolveReturn

----------------------------------------------------------------------------
(* The calls a holder of a clue set makes *)

BoolLines(n) == [1..n -> {0, 1}]

AllGrids(n) == [1..n -> BoolLines(n)]

\* The clues a line of n cells can have.
LineClues(n) == {calculateLine(l) : l \in BoolLines(n)}

\* A caller's solve(rowClues, colClues, maxSolutions) with a square clue set.
Solve ==
    /\ pc = "idle"
    /\ genPc = "idle"
    /\ \E n \in 0..MaxSize, maxSols \in 0..MaxBound :
         \E rc \in [1..n -> LineClues(n)], cc \in [1..n -> LineClues(n)] :
            solveCall(rc, cc, maxSols)
    /\ UNCHANGED <<genVars, playerVars, otherVars>>

\* A caller's solve with one column clue too few or one too many.
SolveMismatched ==
    /\ pc = "idle"
    /\ genPc = "idle"
    /\ \E n \in 1..MaxSize, maxSols \in 1..MaxBound :
         \E m \in {n - 1, n + 1} :
            \E rc \in [1..n -> LineClues(n)], cc \in [1..m -> LineClues(n)] :
               solveCall(rc, cc, maxSols)
    /\ UNCHANGED <<genVars, playerVars, otherVars>>

\* The clues a caller may pass for a line of n cells: those a line of n cells
\* can have, those only a longer line can have, and <<0, 0>>.
AnyClues(n) == LineClues(n + 1) \cup {<<0, 0>>}

\* A caller's solve with a square clue set of arbitrary clues.
SolveAnyClues ==
    /\ pc = "idle"
    /\ genPc = "idle"
    /\ \E n \in 0..MaxSize, maxSols \in 1..MaxBound :
         \E rc \in [1..n -> AnyClues(n)], cc \in [1..n -> AnyClues(n)] :
            solveCall(rc, cc, maxSols)
    /\ UNCHANGED <<genVars, playerVars, otherVars>>

\* The 5 x 5 grid whose only filled cells are on the main diagonal.
DiagonalGrid ==
    << <<1, 0, 0, 0, 0>>,
       <<0, 1, 0, 0, 0>>,
       <<0, 0, 1, 0, 0>>,
       <<0, 0, 0, 1, 0>>,
       <<0, 0, 0, 0, 1>> >>

\* A caller's solve with the clues of the diagonal grid and maxSolutions = 5.
SolveDiagonal ==
    /\ pc = "idle"
    /\ genPc = "idle"
    /\ solveCall(calculateAll(DiagonalGrid).rowClues, calculateAll(DiagonalGrid).colClues,
                 Len(DiagonalGrid))
    /\ UNCHANGED <<genVars, playerVars, otherVars>>

\* The default value of solve's parameter maxSolutions.
defaultMaxSolutions == 2

\* A caller's solve(rowClues, colClues) with a square clue set: maxSolutions
\* takes its default.
SolveDefault ==
    /\ pc = "idle"
    /\ genPc = "idle"
    /\ \E n \in 0..MaxSize :
         \E rc \in [1..n -> LineClues(n)], cc \in [1..n -> LineClues(n)] :
            solveCall(rc, cc, defaultMaxSolutions)
    /\ UNCHANGED <<genVars, playerVars, otherVars>>

\* Longest line of 0s and 1s a caller of calculateLine passes.
MaxLine == 6

\* The lines of the literal cases.
LiteralLines == {<<1, 1, 0, 1, 0, 0, 1, 1, 1, 0>>, <<0, 0, 0, 0>>, <<1, 1, 1, 1>>}

\* The lines a caller of calculateLine passes.
GivenLines == UNION {BoolLines(n) : n \in 0..MaxLine} \cup LiteralLines

\* Longest partial line a caller of canMatchClues passes.
MaxPartial == 4

\* The lines with at least one unknown cell.
PartialLines ==
    {l \in UNION {[1..n -> {-1, 0, 1}] : n \in 1..MaxPartial} :
        \E i \in 1..Len(l) : l[i] = -1}

\* The clues a caller of canMatchClues passes: those a line can have, and none.
PartialClues == LineClues(MaxPartial) \cup {<<>>}

\* A caller's canMatchClues(line, clues) with the line and clues it holds.
CanMatchClues ==
    /\ pc = "idle"
    /\ genPc = "idle"
    /\ canMatch = <<>>
    /\ canMatch' = <<canMatchClues(partialLine, expected)>>
    /\ UNCHANGED <<lineIn, clueOut, partialLine, expected>>
    /\ UNCHANGED <<solverVars, genVars, playerVars, editorVars, randomVars>>

\* A caller's calculateLine(line).
CalculateLine ==
    /\ pc = "idle"
    /\ genPc = "idle"
    /\ \E l \in GivenLines :
         /\ lineIn' = l
         /\ clueOut' = <<calculateLine(l)>>
    /\ UNCHANGED <<partialLine, expected, canMatch>>
    /\ UNCHANGED <<solverVars, genVars, playerVars, editorVars, randomVars>>

----------------------------------------------------------------------------
(* Generator *)

\* Mutant of loopContinues: <= instead of <.
loopContinuesOffByOne(att, maxAtt) == att <= maxAtt

\* The loop condition of generate.
loopContinues(att, maxAtt) == att < maxAtt

\* Mutant of accepts: a solvable puzzle is accepted, unique or not.
acceptsSolvable(res) == res.solvable

\* The test generate puts to the solver's result.
accepts(res) == res.unique

NoPuzzle == [kind |-> "none", size |-> 0, solution |-> <<>>]

\* parseInt of a text that is no number.
NaN == -4

\* A call generate(size, maxAttempts): the loop is about to test its condition.
Generate ==
    /\ genPc = "idle"
    /\ pc = "idle"
    /\ \E n \in 0..MaxSize, maxAtt \in 0..MaxTries :
         /\ genSize' = n
         /\ maxAttempts' = maxAtt
    /\ genPc' = "loop"
    /\ attempt' = 0
    /\ UNCHANGED <<candidate, examined, genRet>>
    /\ UNCHANGED <<solverVars, playerVars, otherVars>>

\* One pass of the loop up to the call of the solver: generateRandomGrid can
\* yield any grid of 0s and 1s, whatever fillPercentage is.
GenAttempt ==
    /\ genPc = "loop"
    /\ loopContinues(attempt, maxAttempts)
    /\ genSize # NaN
    /\ \E g \in AllGrids(genSize) :
         /\ candidate' = g
         /\ solveCall(calculateAll(g).rowClues, calculateAll(g).colClues, 2)
    /\ genPc' = "solving"
    /\ UNCHANGED <<genSize, maxAttempts, attempt, examined, genRet>>
    /\ UNCHANGED <<playerVars, otherVars>>

\* The rest of the pass, once solve has returned: return the puzzle, or count
\* the attempt and drop the pass's locals.
GenCheck ==
    /\ genPc = "solving"
    /\ pc = "returned"
    /\ examined' = Append(examined, result.unique)
    /\ IF accepts(result)
       THEN /\ genRet' = [kind |-> "puzzle", size |-> genSize, solution |-> candidate]
            /\ genPc' = "returned"
            /\ UNCHANGED <<attempt, candidate, solverVars>>
       ELSE /\ attempt' = attempt + 1
            /\ genPc' = "loop"
            /\ candidate' = <<>>
            /\ pc' = "idle"
            /\ rowClues' = <<>>
            /\ colClues' = <<>>
            /\ maxSolutions' = 0
            /\ grid' = <<>>
            /\ solutions' = <<>>
            /\ stack' = <<>>
            /\ ret' = "none"
            /\ result' = [solutions |-> <<>>, unique |-> FALSE, solvable |-> FALSE]
            /\ UNCHANGED genRet
    /\ UNCHANGED <<genSize, maxAttempts>>
    /\ UNCHANGED <<playerVars, otherVars>>

\* A pass of the loop with size NaN: create2DArray calls Array(NaN), which
\* throws a RangeError out of generate.
GenThrow ==
    /\ genPc = "loop"
    /\ loopContinues(attempt, maxAttempts)
    /\ genSize = NaN
    /\ genPc' = "threw"
    /\ UNCHANGED <<genSize, maxAttempts, attempt, candidate, examined, genRet>>
    /\ UNCHANGED <<solverVars, playerVars, otherVars>>

\* The loop ends without a puzzle: return null.
GenGiveUp ==
    /\ genPc = "loop"
    /\ ~loopContinues(attempt, maxAttempts)
    /\ genRet' = [kind |-> "null", size |-> 0, solution |-> <<>>]
    /\ genPc' = "returned"
    /\ UNCHANGED <<genSize, maxAttempts, attempt, candidate, examined>>
    /\ UNCHANGED <<solverVars, playerVars, otherVars>>

----------------------------------------------------------------------------
(* Grid: the editable grid of the three modes *)

\* The value of dragAction and dragButton when no drag is under way.
null == -3

\* e.button: 0 left, 1 middle, 2 right.
Buttons == {0, 1, 2}

\* The cells the mouse is moved over, as <<row, column>> from 1.
EditCells == {<<1, 1>>, <<1, 2>>}

\* render(): the clue elements are created anew, none of them marked satisfied.
render(g) ==
    [g EXCEPT !.rowSatisfied = [r \in 1..g.size |-> FALSE],
              !.colSatisfied = [c \in 1..g.size |-> FALSE]]

\* new Grid(size, container, {rowClues, colClues, ...}): the data starts empty.
newGrid(sz, rc, cc) ==
    render([size |-> sz, data |-> create2DArray(sz, sz, 0),
            rowClues |-> rc, colClues |-> cc,
            isDragging |-> FALSE, dragAction |-> null, dragButton |-> null,
            rowSatisfied |-> <<>>, colSatisfied |-> <<>>])

\* The action handleMouseDown chooses for a cell in state currentState; a
\* button that is neither left nor right leaves dragAction as it was.
nextDragAction(currentState, button, previous) ==
    IF button = 0
    THEN (IF currentState = 0 THEN 1 ELSE IF currentState = 1 THEN 2 ELSE 0)
    ELSE IF button = 2
    THEN (IF currentState = 0 THEN 2 ELSE IF currentState = 2 THEN 0 ELSE 2)
    ELSE previous

\* handleMouseDown up to the call of applyCellAction.
handleMouseDown(g, row, col, button) ==
    [g EXCEPT !.isDragging = TRUE,
              !.dragButton = button,
              !.dragAction = nextDragAction(g.data[row][col], button, g.dragAction)]

\* The guard of handleMouseEnter.
dragApplies(g) == g.isDragging /\ g.dragAction # null

setCellState(g, row, col, state) == [g EXCEPT !.data[row][col] = state]

\* applyCellAction without its callback.
applyCellAction(g, row, col) == setCellState(g, row, col, g.dragAction)

\* applyCellAction's test for calling onCellChange.
cellChanged(g, row, col) == g.data[row][col] # g.dragAction

\* Mutant of mouseUp: the listener does nothing.
mouseUpKeepsDrag(g) == g

\* The document's mouseup listener of a grid.
mouseUp(g) == [g EXCEPT !.isDragging = FALSE, !.dragAction = null, !.dragButton = null]

clear(g) == render([g EXCEPT !.data = create2DArray(g.size, g.size, 0)])

getData(g) == copy2DArray(g.data)

updateClues(g, rc, cc) == render([g EXCEPT !.rowClues = rc, !.colClues = cc])

\* The mouseup listeners of every grid there is run on one mouseup.
MouseUp ==
    /\ genPc = "idle"
    /\ editorGrid' = IF editorGrid = <<>> THEN <<>> ELSE <<mouseUp(editorGrid[1])>>
    /\ playerGrid' = IF playerGrid = <<>> THEN <<>> ELSE <<mouseUp(playerGrid[1])>>
    /\ randomGrid' = IF randomGrid = <<>> THEN <<>> ELSE <<mouseUp(randomGrid[1])>>
    /\ editorPressed' = <<>>
    /\ UNCHANGED <<editorSize, exported, currentPuzzle, message>>
    /\ UNCHANGED <<randomPuzzle, randomMessage, generateDisabled, timers, inCallback>>
    /\ UNCHANGED <<solverVars, genVars, lineVars>>

----------------------------------------------------------------------------
(* Editor mode *)

\* The grid sizes of the application: the ones loadPuzzle accepts.
SmallSize == 10
LargeSize == 15

\* createEditorGrid(size): a grid with the clues of an empty grid.
createEditorGrid(sz) ==
    newGrid(sz, [r \in 1..sz |-> <<0>>], [c \in 1..sz |-> <<0>>])

\* updateEditorClues, the editor grid's onCellChange.
updateEditorClues(g) ==
    updateClues(g, calculateAll(getData(g)).rowClues, calculateAll(getData(g)).colClues)

\* A grid after applyCellAction, with the editor's callback run on a change.
editorApply(g, row, col) ==
    IF cellChanged(g, row, col)
    THEN updateEditorClues(applyCellAction(g, row, col))
    ELSE applyCellAction(g, row, col)

\* The DOMContentLoaded handler: initEditor creates the grid of the default
\* size; initPlayer and initGenerator only register their handlers.
InitEditor ==
    /\ editorGrid = <<>>
    /\ editorGrid' = <<createEditorGrid(editorSize)>>
    /\ UNCHANGED <<editorSize, exported, editorPressed>>
    /\ UNCHANGED <<solverVars, genVars, playerVars, randomVars, lineVars>>

EditorMouseDown ==
    /\ genPc = "idle"
    /\ editorGrid # <<>>
    /\ \E cell \in EditCells, button \in Buttons :
         /\ editorGrid' = <<editorApply(
                              handleMouseDown(editorGrid[1], cell[1], cell[2], button),
                              cell[1], cell[2])>>
         /\ editorPressed' = <<editorGrid'[1].data[cell[1]][cell[2]]>>
    /\ UNCHANGED <<editorSize, exported>>
    /\ UNCHANGED <<solverVars, genVars, playerVars, randomVars, lineVars>>

EditorMouseEnter ==
    /\ genPc = "idle"
    /\ editorGrid # <<>>
    /\ UNCHANGED <<editorSize, exported, editorPressed>>
    /\ \E cell \in EditCells :
         editorGrid' = IF dragApplies(editorGrid[1])
                       THEN <<editorApply(editorGrid[1], cell[1], cell[2])>>
                       ELSE editorGrid
    /\ UNCHANGED <<solverVars, genVars, playerVars, randomVars, lineVars>>

\* The clear button, confirmed.
ClearEditor ==
    /\ genPc = "idle"
    /\ editorGrid # <<>>
    /\ editorGrid' = <<clear(editorGrid[1])>>
    /\ UNCHANGED <<editorSize, exported, editorPressed>>
    /\ UNCHANGED <<solverVars, genVars, playerVars, randomVars, lineVars>>

\* The size select's change handler.
ChangeEditorSize ==
    /\ genPc = "idle"
    /\ editorGrid # <<>>
    /\ \E sz \in {SmallSize, LargeSize} :
         /\ editorSize' = sz
         /\ editorGrid' = <<createEditorGrid(sz)>>
    /\ editorPressed' = <<>>
    /\ UNCHANGED exported
    /\ UNCHANGED <<solverVars, genVars, playerVars, randomVars, lineVars>>

\* exportPuzzle's test for refusing the grid.
isEmpty(gridData) ==
    \A r \in 1..Len(gridData) : \A c \in 1..Len(gridData[r]) : gridData[r][c] = 0

\* The export button: the record handed to downloadJSON, unless the grid is empty.
ExportPuzzle ==
    /\ genPc = "idle"
    /\ editorGrid # <<>>
    /\ exported' = IF isEmpty(getData(editorGrid[1]))
                   THEN exported
                   ELSE <<[size |-> editorSize, solution |-> getData(editorGrid[1])]>>
    /\ UNCHANGED <<editorSize, editorGrid, editorPressed>>
    /\ UNCHANGED <<solverVars, genVars, playerVars, randomVars, lineVars>>

----------------------------------------------------------------------------
(* Play mode: loading a puzzle record *)

\* The cell patterns of the records tried: empty, top left cell only,
\* diagonal, chequered.
Patterns == {"empty", "corner", "diagonal", "chequered"}

patternCell(p, r, c) ==
    IF p = "diagonal" THEN (IF r = c THEN 1 ELSE 0)
    ELSE IF p = "chequered" THEN (r + c) % 2
    ELSE IF p = "corner" THEN (IF r = 1 /\ c = 1 THEN 1 ELSE 0)
    ELSE 0

\* A record of nRows rows of `width` cells, except that row `odd` (0: none)
\* has oddWidth cells.
recordOf(sz, nRows, width, odd, oddWidth, p) ==
    [size |-> sz,
     solution |-> [r \in 1..nRows |->
                     [c \in 1..(IF r = odd THEN oddWidth ELSE width) |->
                        patternCell(p, r, c)]]]

\* The records a file can hold: a size, and a matrix that is square of that
\* size or is off by one in its row count, its width, or one row's length.
ImportedRecords ==
    UNION {
      {recordOf(sz, nRows, width, odd, oddWidth, p) :
          nRows \in {k \in {sz - 1, sz, sz + 1} : k >= 0},
          width \in {k \in {sz - 1, sz} : k >= 0},
          odd \in {0, 1, 2, sz},
          oddWidth \in {k \in {sz - 1, sz + 1} : k >= 0},
          p \in Patterns} :
      sz \in {0, SmallSize - 1, SmallSize, LargeSize} }

\* The error loadPuzzle throws for a record, "" when it throws none.
loadError(puzzle) ==
    IF puzzle.size = 0 THEN "Invalid puzzle format"
    ELSE IF puzzle.size # SmallSize /\ puzzle.size # LargeSize
    THEN "Puzzle size must be 10 or 15"
    ELSE IF Len(puzzle.solution) # puzzle.size
    THEN "Puzzle dimensions do not match specified size"
    ELSE IF Len(puzzle.solution[1]) # puzzle.size
    THEN "Puzzle dimensions do not match specified size"
    ELSE ""

\* Mutant of importRecord: currentPuzzle is assigned before the validation.
importRecordAssignsFirst(puzzle) ==
    IF loadError(puzzle) # ""
    THEN /\ message' = "Error loading puzzle: " \o loadError(puzzle)
         /\ currentPuzzle' = <<puzzle>>
         /\ UNCHANGED playerGrid
    ELSE /\ currentPuzzle' = <<puzzle>>
         /\ playerGrid' = <<newGrid(puzzle.size,
                                    calculateAll(puzzle.solution).rowClues,
                                    calculateAll(puzzle.solution).colClues)>>
         /\ message' = "Puzzle loaded successfully!"

\* The file input's change handler once the file is read: loadPuzzle, then the
\* success message, or the error message when loadPuzzle throws.
importRecord(puzzle) ==
    IF loadError(puzzle) # ""
    THEN /\ message' = "Error loading puzzle: " \o loadError(puzzle)
         /\ UNCHANGED <<currentPuzzle, playerGrid>>
    ELSE /\ currentPuzzle' = <<puzzle>>
         /\ playerGrid' = <<newGrid(puzzle.size,
                                    calculateAll(puzzle.solution).rowClues,
                                    calculateAll(puzzle.solution).colClues)>>
         /\ message' = "Puzzle loaded successfully!"

ImportPuzzle ==
    /\ \E puzzle \in ImportedRecords : importRecord(puzzle)
    /\ UNCHANGED <<solverVars, genVars, otherVars>>

\* The records of the files a player imports to play: one of each pattern, one
\* whose second row is a cell short, and one for each error of loadPuzzle (a
\* size it refuses, no size, a row too few).
PlayableRecords ==
    {recordOf(SmallSize, SmallSize, SmallSize, 0, SmallSize, p) : p \in Patterns}
        \cup {recordOf(SmallSize, SmallSize, SmallSize, 2, SmallSize - 1, "diagonal"),
              recordOf(SmallSize - 1, SmallSize - 1, SmallSize - 1, 0, SmallSize - 1,
                       "corner"),
              recordOf(0, 0, 0, 0, 0, "empty"),
              recordOf(SmallSize, SmallSize - 1, SmallSize, 0, SmallSize, "corner")}

\* The file input's change handler for a file a player imports to play.
ImportPlayable ==
    /\ genPc = "idle"
    /\ \E puzzle \in PlayableRecords : importRecord(puzzle)
    /\ UNCHANGED <<solverVars, genVars, otherVars>>

----------------------------------------------------------------------------
(* Play mode and random mode: the player's grid against the puzzle *)

\* The cells of g the mouse is moved over.
cellsOf(g) == {cell \in EditCells : cell[1] <= g.size /\ cell[2] <= g.size}

\* Mutant of asFilled: every cell that is not empty counts as filled.
asFilledUnlessEmpty(cell) == IF cell # 0 THEN 1 ELSE 0

\* cell === 1 ? 1 : 0
asFilled(cell) == IF cell = 1 THEN 1 ELSE 0

\* The player's data with every cell that is not filled read as empty.
playerSolution(playerData) ==
    [r \in 1..Len(playerData) |->
        [c \in 1..Len(playerData[r]) |-> asFilled(playerData[r][c])]]

\* The comparison of checkSolution and of checkRandomSolution: a cell the
\* player's row does not have reads as undefined.
isCorrect(playerData, solution) ==
    \A row \in 1..Len(solution) : \A col \in 1..Len(solution[row]) :
        (IF col <= Len(playerData[row])
         THEN playerSolution(playerData)[row][col]
         ELSE undefined) = solution[row][col]

\* Mutant of checkCluesMatch: only the lengths are compared.
checkCluesMatchLengthOnly(playerClues, expectedClues) ==
    Len(playerClues) = Len(expectedClues)

\* checkCluesMatch of player.js, checkCluesMatchForRandom of utils.js.
checkCluesMatch(playerClues, expectedClues) ==
    IF Len(playerClues) # Len(expectedClues) THEN FALSE
    ELSE \A i \in 1..Len(playerClues) : playerClues[i] = expectedClues[i]

\* isSatisfied for a row, as updateClueIndicators computes it.
rowIndicator(g, playerData, row) ==
    checkCluesMatch(calculateLine([c \in 1..Len(playerData[row]) |->
                                      asFilled(playerData[row][c])]),
                    g.rowClues[row])

\* isSatisfied for a column.
colIndicator(g, playerData, sz, col) ==
    checkCluesMatch(calculateLine([r \in 1..sz |-> asFilled(playerData[r][col])]),
                    g.colClues[col])

\* updateClueIndicators and updateRandomClueIndicators for a puzzle of size sz.
updateClueIndicators(g, sz) ==
    [g EXCEPT !.rowSatisfied = [r \in 1..g.size |->
                  IF r <= sz THEN rowIndicator(g, getData(g), r) ELSE g.rowSatisfied[r]],
              !.colSatisfied = [c \in 1..g.size |->
                  IF c <= sz THEN colIndicator(g, getData(g), sz, c) ELSE g.colSatisfied[c]]]

\* A grid after applyCellAction, with the indicators updated on a change.
playerApply(g, sz, row, col) ==
    IF cellChanged(g, row, col)
    THEN updateClueIndicators(applyCellAction(g, row, col), sz)
    ELSE applyCellAction(g, row, col)

PlayerMouseDown ==
    /\ genPc = "idle"
    /\ playerGrid # <<>>
    /\ \E cell \in cellsOf(playerGrid[1]), button \in Buttons :
         playerGrid' = <<playerApply(
                           handleMouseDown(playerGrid[1], cell[1], cell[2], button),
                           currentPuzzle[1].size, cell[1], cell[2])>>
    /\ UNCHANGED <<currentPuzzle, message>>
    /\ UNCHANGED <<solverVars, genVars, otherVars>>

PlayerMouseEnter ==
    /\ genPc = "idle"
    /\ playerGrid # <<>>
    /\ \E cell \in cellsOf(playerGrid[1]) :
         playerGrid' = IF dragApplies(playerGrid[1])
                       THEN <<playerApply(playerGrid[1], currentPuzzle[1].size,
                                          cell[1], cell[2])>>
                       ELSE playerGrid
    /\ UNCHANGED <<currentPuzzle, message>>
    /\ UNCHANGED <<solverVars, genVars, otherVars>>

\* The check button.
CheckSolution ==
    /\ genPc = "idle"
    /\ currentPuzzle # <<>>
    /\ playerGrid # <<>>
    /\ message' = IF isCorrect(getData(playerGrid[1]), currentPuzzle[1].solution)
                  THEN "Congratulations! You solved the puzzle!"
                  ELSE "Not quite right. Keep trying!"
    /\ UNCHANGED <<currentPuzzle, playerGrid>>
    /\ UNCHANGED <<solverVars, genVars, otherVars>>

\* The reset button, confirmed.
ResetPuzzle ==
    /\ genPc = "idle"
    /\ currentPuzzle # <<>>
    /\ playerGrid # <<>>
    /\ playerGrid' = <<clear(playerGrid[1])>>
    /\ message' = "Puzzle reset!"
    /\ UNCHANGED currentPuzzle
    /\ UNCHANGED <<solverVars, genVars, otherVars>>

----------------------------------------------------------------------------
(* Random mode: the generate button and the generated puzzle *)

\* Most setTimeout callbacks scheduled at once.
MaxPending == 2

\* The values parseInt(sizeSelect.value) can have.
SelectableSizes == (1..MaxSize) \cup {NaN}

\* The maxAttempts of generate(size): the default.
defaultAttempts == MaxTries

\* Mutant of disabledOnClick: the click handler leaves the button enabled.
disabledOnClickNot == FALSE

\* generateBtn.disabled as the click handler sets it.
disabledOnClick == TRUE

\* The click handler of the generate button: a disabled button gets no click.
ClickGenerate ==
    /\ genPc = "idle"
    /\ ~generateDisabled
    /\ Len(timers) < MaxPending
    /\ \E sz \in SelectableSizes : timers' = Append(timers, sz)
    /\ randomMessage' = "Generating puzzle... This may take a moment."
    /\ generateDisabled' = disabledOnClick
    /\ UNCHANGED <<randomGrid, randomPuzzle, inCallback>>
    /\ UNCHANGED <<solverVars, genVars, playerVars, editorVars, lineVars>>

\* The setTimeout callback starts: it calls Generator.generate(size).
TimerFires ==
    /\ genPc = "idle"
    /\ pc = "idle"
    /\ timers # <<>>
    /\ timers' = Tail(timers)
    /\ inCallback' = TRUE
    /\ genPc' = "loop"
    /\ genSize' = Head(timers)
    /\ maxAttempts' = defaultAttempts
    /\ attempt' = 0
    /\ UNCHANGED <<candidate, examined, genRet>>
    /\ UNCHANGED <<randomGrid, randomPuzzle, randomMessage, generateDisabled>>
    /\ UNCHANGED <<solverVars, playerVars, editorVars, lineVars>>

\* The call of generate is over and its locals, the solver's included, are gone.
dropGenerateCall ==
    /\ genPc' = "idle"
    /\ genSize' = 0
    /\ maxAttempts' = 0
    /\ attempt' = 0
    /\ candidate' = <<>>
    /\ examined' = <<>>
    /\ genRet' = NoPuzzle
    /\ pc' = "idle"
    /\ rowClues' = <<>>
    /\ colClues' = <<>>
    /\ maxSolutions' = 0
    /\ grid' = <<>>
    /\ solutions' = <<>>
    /\ stack' = <<>>
    /\ ret' = "none"
    /\ result' = [solutions |-> <<>>, unique |-> FALSE, solvable |-> FALSE]

\* loadRandomPuzzle: a new grid with the clues of the puzzle's solution.
loadRandomPuzzle(puzzle) ==
    newGrid(puzzle.size, calculateAll(puzzle.solution).rowClues,
            calculateAll(puzzle.solution).colClues)

\* The rest of the setTimeout callback, once generate has returned or thrown:
\* the try block, the catch block, and the finally block.
GenerateDone ==
    /\ inCallback
    /\ genPc \in {"returned", "threw"}
    /\ IF genPc = "threw"
       THEN /\ randomMessage' = "Error generating puzzle: Invalid array length"
            /\ UNCHANGED <<randomGrid, randomPuzzle>>
       ELSE IF genRet.kind = "puzzle"
       THEN /\ randomPuzzle' = <<[size |-> genRet.size, solution |-> genRet.solution]>>
            /\ randomGrid' = <<loadRandomPuzzle(genRet)>>
            /\ randomMessage' = "Puzzle generated! Start solving."
       ELSE /\ randomMessage' = "Failed to generate a unique puzzle. Try again."
            /\ UNCHANGED <<randomGrid, randomPuzzle>>
    /\ generateDisabled' = FALSE
    /\ inCallback' = FALSE
    /\ dropGenerateCall
    /\ UNCHANGED timers
    /\ UNCHANGED <<playerVars, editorVars, lineVars>>

\* The random grid's onCellChange: the indicators, then checkRandomSolution's
\* message when the grid is correct.
randomApply(g, puzzle, row, col) ==
    IF cellChanged(g, row, col)
    THEN updateClueIndicators(applyCellAction(g, row, col), puzzle.size)
    ELSE applyCellAction(g, row, col)

randomMessageAfter(g, puzzle, row, col) ==
    IF cellChanged(g, row, col)
       /\ isCorrect(getData(applyCellAction(g, row, col)), puzzle.solution)
    THEN "Congratulations! You solved the puzzle!"
    ELSE randomMessage

RandomMouseDown ==
    /\ genPc = "idle"
    /\ randomGrid # <<>>
    /\ \E cell \in cellsOf(randomGrid[1]), button \in Buttons :
         LET g == handleMouseDown(randomGrid[1], cell[1], cell[2], button)
         IN  /\ randomGrid' = <<randomApply(g, randomPuzzle[1], cell[1], cell[2])>>
             /\ randomMessage' = randomMessageAfter(g, randomPuzzle[1], cell[1], cell[2])
    /\ UNCHANGED <<randomPuzzle, generateDisabled, timers, inCallback>>
    /\ UNCHANGED <<solverVars, genVars, playerVars, editorVars, lineVars>>

RandomMouseEnter ==
    /\ genPc = "idle"
    /\ randomGrid # <<>>
    /\ \E cell \in cellsOf(randomGrid[1]) :
         IF dragApplies(randomGrid[1])
         THEN /\ randomGrid' = <<randomApply(randomGrid[1], randomPuzzle[1],
                                             cell[1], cell[2])>>
              /\ randomMessage' = randomMessageAfter(randomGrid[1], randomPuzzle[1],
                                                     cell[1], cell[2])
         ELSE UNCHANGED <<randomGrid, randomMessage>>
    /\ UNCHANGED <<randomPuzzle, generateDisabled, timers, inCallback>>
    /\ UNCHANGED <<solverVars, genVars, playerVars, editorVars, lineVars>>

----------------------------------------------------------------------------
(* Specifications *)

SolverInit ==
    /\ pc = "idle"
    /\ rowClues = <<>>
    /\ colClues = <<>>
    /\ maxSolutions = 0
    /\ grid = <<>>
    /\ solutions = <<>>
    /\ stack = <<>>
    /\ ret = "none"
    /\ result = [solutions |-> <<>>, unique |-> FALSE, solvable |-> FALSE]

GenInit ==
    /\ genPc = "idle"
    /\ genSize = 0
    /\ maxAttempts = 0
    /\ attempt = 0
    /\ candidate = <<>>
    /\ examined = <<>>
    /\ genRet = NoPuzzle

PlayerInit ==
    /\ currentPuzzle = <<>>
    /\ playerGrid = <<>>
    /\ message = ""

\* The scripts are loaded and the DOMContentLoaded handler has not run yet.
EditorInit ==
    /\ editorSize = SmallSize
    /\ editorGrid = <<>>
    /\ exported = <<>>
    /\ editorPressed = <<>>

RandomInit ==
    /\ randomGrid = <<>>
    /\ randomPuzzle = <<>>
    /\ randomMessage = ""
    /\ generateDisabled = FALSE
    /\ timers = <<>>
    /\ inCallback = FALSE

\* calculateLine has not been called by a holder of a line.
LineInit ==
    /\ lineIn = <<>>
    /\ clueOut = <<>>
    /\ partialLine = <<>>
    /\ expected = <<>>
    /\ canMatch = <<>>

Init == SolverInit /\ GenInit /\ PlayerInit /\ EditorInit /\ RandomInit /\ LineInit

\* A caller solves a square clue set.
Next == Solve \/ BacktrackEnter \/ TryValue \/ Resume \/ Undo \/ SolveReturn

Spec == Init /\ [][Next]_vars

\* A caller solves a square clue set of arbitrary clues.  The call is
\* synchronous: once started it takes its next step until it returns or throws.
AnyNext == SolveAnyClues \/ BacktrackEnter \/ TryValue \/ Resume \/ Undo \/ SolveReturn

FairSpec == Init /\ [][AnyNext]_vars /\ WF_vars(AnyNext)

\* A caller solves a clue set whose column clue count differs from its row clue count.
MismatchNext ==
    SolveMismatched \/ BacktrackEnter \/ TryValue \/ Resume \/ Undo \/ SolveReturn

MismatchSpec == Init /\ [][MismatchNext]_vars

\* A caller solves the clues of the diagonal grid.
DiagonalNext ==
    SolveDiagonal \/ BacktrackEnter \/ TryValue \/ Resume \/ Undo \/ SolveReturn

DiagonalSpec == Init /\ [][DiagonalNext]_vars

\* A caller solves a square clue set with the default maxSolutions.
DefaultNext ==
    SolveDefault \/ BacktrackEnter \/ TryValue \/ Resume \/ Undo \/ SolveReturn

DefaultSpec == Init /\ [][DefaultNext]_vars

\* A caller tests a partial line against clues.
PartialNext == CanMatchClues

\* The caller holds any partial line and any clues.
PartialInit ==
    /\ SolverInit /\ GenInit /\ PlayerInit /\ EditorInit /\ RandomInit
    /\ lineIn = <<>>
    /\ clueOut = <<>>
    /\ partialLine \in PartialLines
    /\ expected \in PartialClues
    /\ canMatch = <<>>

PartialSpec == PartialInit /\ [][PartialNext]_vars

\* A caller computes the clue of a line.
LineNext == CalculateLine

LineSpec == Init /\ [][LineNext]_vars

\* The random mode generates a puzzle.
GenNext ==
    \/ Generate \/ GenAttempt \/ GenCheck \/ GenGiveUp
    \/ BacktrackEnter \/ TryValue \/ Resume \/ Undo \/ SolveReturn

GenSpec == Init /\ [][GenNext]_vars

\* The play mode imports puzzle files.
PlayNext == ImportPuzzle

PlaySpec == Init /\ [][PlayNext]_vars

\* The generate call of the random mode, from the timer to its return.
GenerateCall ==
    \/ TimerFires \/ GenAttempt \/ GenThrow \/ GenCheck \/ GenGiveUp
    \/ BacktrackEnter \/ TryValue \/ Resume \/ Undo \/ SolveReturn
    \/ GenerateDone

\* Nothing was done in random mode.
randomUntouched ==
    /\ randomGrid = <<>>
    /\ timers = <<>>
    /\ ~generateDisabled
    /\ ~inCallback
    /\ randomMessage = ""

\* Nothing was done in play mode.
playUntouched == currentPuzzle = <<>> /\ message = ""

\* A session in play mode begins or goes on: a file is imported.
ImportInPlaySession == randomUntouched /\ ImportPlayable

\* A session in random mode: the generate button while no puzzle is there yet.
FirstClick == playUntouched /\ randomPuzzle = <<>> /\ ClickGenerate

\* A player's session in one of the two modes that have a puzzle to solve:
\* puzzle files are imported and played, or a puzzle is generated and played.
SolvingNext ==
    \/ ImportInPlaySession \/ PlayerMouseDown \/ PlayerMouseEnter
    \/ CheckSolution \/ ResetPuzzle
    \/ FirstClick \/ GenerateCall \/ RandomMouseDown \/ RandomMouseEnter
    \/ MouseUp

SolvingSpec == Init /\ [][SolvingNext]_vars

\* The editor mode: a grid is drawn and exported.
EditorNext ==
    \/ InitEditor \/ EditorMouseDown \/ EditorMouseEnter \/ MouseUp
    \/ ClearEditor \/ ChangeEditorSize \/ ExportPuzzle

EditorSpec == Init /\ [][EditorNext]_vars

\* The random mode: the generate button is clicked again and again.
RandomNext == ClickGenerate \/ GenerateCall

RandomSpec == Init /\ [][RandomNext]_vars /\ WF_vars(GenerateCall)

----------------------------------------------------------------------------
(* What the properties are stated with *)

Range(f) == {f[i] : i \in DOMAIN f}

\* The grids of n columns whose first r rows have the clues rc[1..r].
RECURSIVE gridsWithRows(_, _, _)
gridsWithRows(rc, n, r) ==
    IF r = 0 THEN {<<>>}
    ELSE {Append(g, l) : g \in gridsWithRows(rc, n, r - 1),
                         l \in {x \in BoolLines(n) : calculateLine(x) = rc[r]}}

\* Every grid of 0s and 1s that has the row clues rc and the column clues cc.
Satisfying(rc, cc) ==
    {g \in gridsWithRows(rc, Len(rc), Len(rc)) :
        \A c \in 1..Len(rc) : calculateLine([r \in 1..Len(rc) |-> g[r][c]]) = cc[c]}

\* The clue set of the running or finished solve call is square.
Square == Len(colClues) = Len(rowClues)

\* g is a fully assigned grid of the call's size with the call's clues.
SolvesCall(g) ==
    /\ Len(g) = Len(rowClues)
    /\ \A r \in 1..Len(g) :
         /\ Len(g[r]) = Len(rowClues)
         /\ \A c \in 1..Len(g[r]) : g[r][c] \in {0, 1}
         /\ calculateLine(g[r]) = rowClues[r]
    /\ \A c \in 1..Len(colClues) :
         calculateLine([r \in 1..Len(g) |-> g[r][c]]) = colClues[c]

----------------------------------------------------------------------------
(* Properties *)

\* C1: for a square clue set and maxSolutions >= 2, solve reports unique = true
\* exactly when exactly one grid satisfies the clue set.
C1_UniqueIffOneSolution ==
    (pc = "returned" /\ Square /\ maxSolutions >= 2)
        => (result.unique <=> Cardinality(Satisfying(rowClues, colClues)) = 1)

\* C1 witness: a call with bound 2 on a 2 x 2 clue set that two grids satisfy
\* has returned unique = false.
C1_Witness ==
    /\ pc = "returned"
    /\ maxSolutions = 2
    /\ Len(rowClues) = 2
    /\ Cardinality(Satisfying(rowClues, colClues)) = 2
    /\ ~result.unique

\* C2 as claimed: for maxSolutions >= 1 the returned solutions contain every
\* grid whose derived clues are the clue set solved.
C2_EveryGridReturned ==
    (pc = "returned" /\ Square /\ maxSolutions >= 1)
        => \A g \in Satisfying(rowClues, colClues) : g \in Range(result.solutions)

\* C2 amended: the returned solutions contain every grid whose derived clues
\* are the clue set solved, provided at most maxSolutions grids have them.
C2_EveryGridReturnedWithinBound ==
    (pc = "returned" /\ Square /\ maxSolutions >= 1
       /\ Cardinality(Satisfying(rowClues, colClues)) <= maxSolutions)
        => \A g \in Satisfying(rowClues, colClues) : g \in Range(result.solutions)

\* C2 witness: two grids share the clues, the bound is 2, and both are returned.
C2_Witness ==
    /\ pc = "returned"
    /\ maxSolutions = 2
    /\ Cardinality(Satisfying(rowClues, colClues)) = 2
    /\ Satisfying(rowClues, colClues) = Range(result.solutions)

\* C3: with maxSolutions >= 1, in every state of a solve run and in its result
\* the number of recorded solutions is at most maxSolutions.
C3_BoundRespected ==
    (pc # "idle" /\ maxSolutions >= 1)
        => /\ Len(solutions) <= maxSolutions
           /\ Len(result.solutions) <= maxSolutions

\* C3 witness: the bound is reached in the middle of a search that has more
\* solutions to find.
C3_Witness ==
    /\ pc = "running"
    /\ stack # <<>>
    /\ maxSolutions >= 1
    /\ Len(solutions) = maxSolutions
    /\ Cardinality(Satisfying(rowClues, colClues)) > maxSolutions

\* C4: every grid recorded or returned by solve is fully assigned (0 or 1 in
\* every cell) and has exactly the row clues and column clues solve was given.
C4_SolutionsSatisfyClues ==
    Square =>
        /\ \A i \in 1..Len(solutions) : SolvesCall(solutions[i])
        /\ \A i \in 1..Len(result.solutions) : SolvesCall(result.solutions[i])

\* C4 witness: a call has returned two grids.
C4_Witness ==
    /\ pc = "returned"
    /\ Len(rowClues) = 2
    /\ Len(result.solutions) = 2

\* C5: when generate returns a puzzle, its solution is the size x size grid
\* that was sampled and checked, and the solve call on that grid's derived
\* clues with maxSolutions = 2 has returned unique = true.
C5_GeneratedPuzzleUnique ==
    genRet.kind = "puzzle" =>
        /\ genRet.solution = candidate
        /\ genRet.size = genSize
        /\ Len(genRet.solution) = genSize
        /\ \A r \in 1..genSize : Len(genRet.solution[r]) = genSize
        /\ pc = "returned"
        /\ rowClues = calculateAll(genRet.solution).rowClues
        /\ colClues = calculateAll(genRet.solution).colClues
        /\ maxSolutions = 2
        /\ result.unique

\* C5 witness: generate returns a 2 x 2 puzzle on its second attempt.
C5_Witness ==
    /\ genRet.kind = "puzzle"
    /\ genSize = 2
    /\ attempt = 1

\* The solver runs generate has started.
solverRuns == Len(examined) + (IF genPc = "solving" THEN 1 ELSE 0)

\* C6: generate starts the solver at most maxAttempts times; a candidate found
\* unique is the last one examined and is returned at once; null is returned
\* exactly when maxAttempts candidates were examined and none was unique.
C6_FirstUniqueOrNull ==
    /\ solverRuns <= maxAttempts
    /\ \A i \in 1..Len(examined) :
         examined[i] => (i = Len(examined) /\ genRet.kind = "puzzle")
    /\ genRet.kind = "puzzle" => (Len(examined) >= 1 /\ examined[Len(examined)])
    /\ genRet.kind = "null" => Len(examined) = maxAttempts
    /\ (genPc = "returned" /\ genRet.kind # "null") => genRet.kind = "puzzle"
    /\ genPc = "returned" <=> genRet.kind # "none"

\* C6 witness: generate with maxAttempts = 2 examined two candidates, neither
\* unique, and returned null.
C6_Witness ==
    /\ genRet.kind = "null"
    /\ maxAttempts = 2
    /\ examined = <<FALSE, FALSE>>

\* C7: for a square clue set and maxSolutions >= 1 solve throws nothing and
\* reports solvable = true exactly when some grid satisfies the clue set; for
\* an unsatisfiable clue set the result is an empty list, solvable = false and
\* unique = false.
C7_SolvableIffSatisfiable ==
    (Square /\ maxSolutions >= 1) =>
        /\ pc # "threw"
        /\ pc = "returned" =>
             /\ result.solvable <=> Satisfying(rowClues, colClues) # {}
             /\ Satisfying(rowClues, colClues) = {} =>
                  (result.solutions = <<>> /\ ~result.solvable /\ ~result.unique)

\* C7 witness: a call on an unsatisfiable 2 x 2 clue set has returned.
C7_Witness ==
    /\ pc = "returned"
    /\ maxSolutions >= 1
    /\ Len(rowClues) = 2
    /\ Satisfying(rowClues, colClues) = {}
    /\ result.solutions = <<>>

\* C8: a solve call on a square clue set with maxSolutions >= 1 eventually
\* returns a result (it neither runs for ever nor throws).
C8_SolveReturns ==
    (pc = "running" /\ Square /\ maxSolutions >= 1) ~> (pc = "returned")

\* C8 witness: a call on a 2 x 2 clue set with a clue no line of 2 cells can
\* have has returned.
C8_Witness ==
    /\ pc = "returned"
    /\ maxSolutions >= 1
    /\ Len(rowClues) = 2
    /\ \E r \in 1..2 : rowClues[r] \notin LineClues(2)
    /\ stack = <<>>

\* C9 as claimed: a solve call whose column clue count differs from its row
\* clue count fails with an input error, so it never returns a result.
C9_MismatchNeverReturns ==
    ~Square => pc # "returned"

\* The record is what loadPuzzle is claimed to accept: size 10 or 15 and a
\* solution of size rows of size cells.
wellFormedRecord(puzzle) ==
    /\ puzzle.size \in {SmallSize, LargeSize}
    /\ Len(puzzle.solution) = puzzle.size
    /\ \A r \in 1..Len(puzzle.solution) : Len(puzzle.solution[r]) = puzzle.size

\* C10 as claimed: no record whose size is not 10 or 15 or whose solution is
\* not a size x size matrix becomes the current puzzle.
C10_OnlyWellFormedLoaded ==
    currentPuzzle # <<>> => wellFormedRecord(currentPuzzle[1])

\* Every cell of the matrix is 0 or 1.
booleanMatrix(m) ==
    \A r \in 1..Len(m) : \A c \in 1..Len(m[r]) : m[r][c] \in {0, 1}

\* C11 as claimed: every puzzle record the program produces, returned by
\* generate or written by exportPuzzle, has a solution whose cells are all 0 or 1.
C11_StoredSolutionsBoolean ==
    /\ genRet.kind = "puzzle" => booleanMatrix(genRet.solution)
    /\ randomPuzzle # <<>> => booleanMatrix(randomPuzzle[1].solution)
    /\ exported # <<>> => booleanMatrix(exported[1].solution)

\* The cells at which a maximal run of filled cells of the line begins.
runStarts(l) == {i \in 1..Len(l) : l[i] = 1 /\ (i = 1 \/ l[i - 1] # 1)}

\* The length of the maximal run of filled cells that begins at cell s.
runLength(l, s) ==
    CHOOSE k \in 1..Len(l) :
        /\ \A j \in s..(s + k - 1) : j <= Len(l) /\ l[j] = 1
        /\ (s + k > Len(l) \/ l[s + k] # 1)

\* The n-th run start from the left.
nthStart(l, n) ==
    CHOOSE s \in runStarts(l) : Cardinality({t \in runStarts(l) : t < s}) = n - 1

\* The lengths of the maximal runs of filled cells, left to right.
maximalRuns(l) ==
    [n \in 1..Cardinality(runStarts(l)) |-> runLength(l, nthStart(l, n))]

\* C12: for every line of 0s and 1s calculateLine returns the lengths of the
\* maximal runs of filled cells from left to right, and <<0>>, never the empty
\* sequence, for a line without a filled cell; the three literal cases hold.
C12_ClueIsRunLengths ==
    clueOut # <<>> =>
        /\ clueOut[1] # <<>>
        /\ clueOut[1] = (IF runStarts(lineIn) = {} THEN <<0>> ELSE maximalRuns(lineIn))
        /\ lineIn = <<1, 1, 0, 1, 0, 0, 1, 1, 1, 0>> => clueOut[1] = <<2, 1, 3>>
        /\ lineIn = <<0, 0, 0, 0>> => clueOut[1] = <<0>>
        /\ lineIn = <<1, 1, 1, 1>> => clueOut[1] = <<4>>

\* C12 witness: the clue of the literal line of ten cells was computed.
C12_Witness ==
    /\ lineIn = <<1, 1, 0, 1, 0, 0, 1, 1, 1, 0>>
    /\ clueOut = << <<2, 1, 3>> >>

RECURSIVE sum(_)
sum(c) == IF c = <<>> THEN 0 ELSE Head(c) + sum(Tail(c))

\* C13: for every line of N cells of 0s and 1s the clue calculateLine returns
\* is <<0>>, or holds positive integers only with sum + (length - 1) <= N.
C13_ClueFitsLine ==
    clueOut # <<>> =>
        \/ clueOut[1] = <<0>>
        \/ /\ \A i \in 1..Len(clueOut[1]) : clueOut[1][i] > 0
           /\ sum(clueOut[1]) + (Len(clueOut[1]) - 1) <= Len(lineIn)

\* C13 witness: a line of three runs that fills its length exactly.
C13_Witness ==
    /\ clueOut # <<>>
    /\ Len(clueOut[1]) = 3
    /\ sum(clueOut[1]) + 2 = Len(lineIn)

\* The clues of n lines without a filled cell.
zeroClues(n) == [i \in 1..n |-> <<0>>]

\* C14: for N >= 1 the all-zero N x N grid has every row clue and every column
\* clue equal to <<0>>, and solve on that clue set with maxSolutions >= 2
\* returns unique = true with the all-empty grid as its only solution.
C14_EmptyGridUnique ==
    (/\ pc = "returned"
     /\ Len(rowClues) >= 1
     /\ maxSolutions >= 2
     /\ rowClues = calculateAll(create2DArray(Len(rowClues), Len(rowClues), 0)).rowClues
     /\ colClues = calculateAll(create2DArray(Len(rowClues), Len(rowClues), 0)).colClues)
        => /\ rowClues = zeroClues(Len(rowClues))
           /\ colClues = zeroClues(Len(rowClues))
           /\ result.unique
           /\ result.solutions = <<create2DArray(Len(rowClues), Len(rowClues), 0)>>

\* C14 witness: solve has returned for the clues of the all-zero 2 x 2 grid.
C14_Witness ==
    /\ pc = "returned"
    /\ maxSolutions = 2
    /\ rowClues = zeroClues(2)
    /\ colClues = zeroClues(2)
    /\ result.unique

\* C15: every row clue and every column clue of the diagonal 5 x 5 grid is
\* <<1>>, and solve on these clues with maxSolutions = 5 returns solvable = true
\* and unique = false.
C15_DiagonalAmbiguous ==
    /\ calculateAll(DiagonalGrid).rowClues = [i \in 1..5 |-> <<1>>]
    /\ calculateAll(DiagonalGrid).colClues = [i \in 1..5 |-> <<1>>]
    /\ (pc = "returned" /\ rowClues = [i \in 1..5 |-> <<1>>]
          /\ colClues = [i \in 1..5 |-> <<1>>] /\ maxSolutions = 5)
         => (result.solvable /\ ~result.unique)

\* C15 witness: the call has returned five grids, the diagonal one first.
C15_Witness ==
    /\ pc = "returned"
    /\ maxSolutions = 5
    /\ Len(result.solutions) = 5
    /\ result.solutions[1] = DiagonalGrid

\* The cells of the player's data that are marked.
markedCells(playerData) ==
    {cell \in (1..Len(playerData)) \X (1..Len(playerData)) :
        playerData[cell[1]][cell[2]] = 2}

\* The solved verdict and every clue indicator, as the code computes them from
\* the player's data.
verdicts(g, playerData, puzzle) ==
    [solved |-> isCorrect(playerData, puzzle.solution),
     rows |-> [r \in 1..puzzle.size |-> rowIndicator(g, playerData, r)],
     cols |-> [c \in 1..puzzle.size |-> colIndicator(g, playerData, puzzle.size, c)]]

\* Replacing any one marked cell of the grid's data by an empty one changes
\* neither the verdict nor an indicator.
marksReadAsEmpty(g, puzzle) ==
    \A cell \in markedCells(g.data) :
        verdicts(g, [g.data EXCEPT ![cell[1]][cell[2]] = 0], puzzle)
            = verdicts(g, g.data, puzzle)

\* C16: in play mode and in random mode the solved verdict and every row and
\* column indicator depend only on which cells are filled: replacing a marked
\* cell of the player's grid by an empty one changes none of them.
C16_MarkedCountsAsEmpty ==
    /\ playerGrid # <<>> => marksReadAsEmpty(playerGrid[1], currentPuzzle[1])
    /\ randomGrid # <<>> => marksReadAsEmpty(randomGrid[1], randomPuzzle[1])

\* C16 witness: the puzzle with one filled cell is solved in play mode with a
\* marked cell next to the filled one, and the check button said so.
C16_Witness ==
    /\ playerGrid # <<>>
    /\ playerGrid[1].data[1][1] = 1
    /\ playerGrid[1].data[1][2] = 2
    /\ playerGrid[1].rowSatisfied[1]
    /\ message = "Congratulations! You solved the puzzle!"

\* The generate calls that are scheduled or running.
pendingCalls == Len(timers) + (IF inCallback THEN 1 ELSE 0)

\* C17: after a click the generate button stays disabled until the deferred
\* generate call has returned or thrown, it is enabled again in every outcome,
\* and no second call is scheduled or started while one is pending.
C17_ButtonDisabledWhilePending ==
    /\ [](pendingCalls > 0 => generateDisabled)
    /\ [](pendingCalls = 0 => ~generateDisabled)
    /\ [](pendingCalls <= 1)
    /\ [](genPc # "idle" => inCallback)
    /\ (generateDisabled ~> ~generateDisabled)

\* C17 witness: a puzzle was generated, a later call threw, and the button is
\* enabled again.
C17_Witness ==
    /\ ~generateDisabled
    /\ randomPuzzle # <<>>
    /\ randomMessage = "Error generating puzzle: Invalid array length"

\* A cell of the working grid changes to nothing but Unknown.
onlyResets ==
    \A r \in 1..Len(grid) : \A c \in 1..Len(grid[r]) :
        grid'[r][c] # grid[r][c] => grid'[r][c] = -1

\* C18: once the number of recorded solutions has reached maxSolutions, no
\* cell is assigned Filled or Empty again and no solution is recorded: every
\* active frame only resets its cell and returns the stop signal.
C18_StopAtBound ==
    [][(pc = "running" /\ Len(solutions) >= maxSolutions) =>
          /\ solutions' = solutions
          /\ onlyResets
          /\ stack # <<>> => (stack' = pop /\ ret' = "false" /\ pc' = "running")
          /\ stack = <<>> => pc' = "returned"]_vars

\* C18 witness: the bound is reached while a frame that has tried Filled only
\* is active, and more grids satisfy the clues than the bound allows.
C18_Witness ==
    /\ pc = "running"
    /\ maxSolutions >= 1
    /\ Len(solutions) = maxSolutions
    /\ stack # <<>>
    /\ top.vi = 1
    /\ ret = "false"
    /\ Cardinality(Satisfying(rowClues, colClues)) > maxSolutions

\* C19: whenever a backtrack frame for a cell returns, whatever it returns,
\* its cell is Unknown again; so when solve returns every cell of the working
\* grid is Unknown.
C19_CellResetOnReturn ==
    /\ [][(pc = "running" /\ stack # <<>> /\ top.pos < size * size
             /\ Len(stack') < Len(stack))
            => grid'[topRow + 1][topCol + 1] = -1]_vars
    /\ [](pc = "returned" =>
            \A r \in 1..Len(grid) : \A c \in 1..Len(grid[r]) : grid[r][c] = -1)

\* C19 witness: a call on a 2 x 2 clue set that two grids satisfy stopped at
\* its bound of one and returned.
C19_Witness ==
    /\ pc = "returned"
    /\ Len(grid) = 2
    /\ maxSolutions = 1
    /\ Len(result.solutions) = 1
    /\ Cardinality(Satisfying(rowClues, colClues)) = 2
    /\ grid = create2DArray(2, 2, -1)

\* The row-major, Filled-first search of backtrack with the test of
\* isValidPartial removed: the solutions after the call for position pos.
RECURSIVE backtrackUnpruned(_, _, _, _, _, _)
backtrackUnpruned(g, rc, cc, pos, maxSols, sols) ==
    IF ~(Len(sols) < maxSols) THEN sols
    ELSE IF pos >= Len(g) * Len(g)
    THEN (IF isValidSolution(g, rc, cc) = "true" THEN Append(sols, g) ELSE sols)
    ELSE LET row == pos \div Len(g)
             col == pos % Len(g)
             filled == backtrackUnpruned([g EXCEPT ![row + 1][col + 1] = 1],
                                         rc, cc, pos + 1, maxSols, sols)
         IN  IF ~(Len(filled) < maxSols) THEN filled
             ELSE backtrackUnpruned([g EXCEPT ![row + 1][col + 1] = 0],
                                    rc, cc, pos + 1, maxSols, filled)

\* C20: for every square clue set and bound the solutions solve returns are,
\* in content and order, those of the same search without the pruning.
C20_PruningKeepsSolutions ==
    (pc = "returned" /\ Square) =>
        result.solutions =
            backtrackUnpruned(create2DArray(Len(rowClues), Len(rowClues), -1),
                              rowClues, colClues, 0, maxSolutions, <<>>)

\* C20 witness: a call with bound 2 on a 2 x 2 clue set has returned both
\* grids that have the clues.
C20_Witness ==
    /\ pc = "returned"
    /\ Len(rowClues) = 2
    /\ Len(result.solutions) = 2
    /\ maxSolutions = 2

\* The cell of g at the row-major position p (0-based, as backtrack counts).
cellAt(g, p) == g[(p \div Len(g)) + 1][(p % Len(g)) + 1]

\* a comes after b in row-major lexicographic order, Filled above Empty.
lexGreater(a, b) ==
    \E p \in 0..(Len(a) * Len(a) - 1) :
        /\ cellAt(a, p) > cellAt(b, p)
        /\ \A q \in 0..(p - 1) : cellAt(a, q) = cellAt(b, q)

\* C21: solve records solutions in strictly decreasing row-major
\* lexicographic order with Filled ranked above Empty, and the first grid of
\* the returned list is the greatest grid in that order that satisfies the
\* clue set.
C21_DecreasingOrder ==
    /\ \A i, j \in 1..Len(solutions) :
         i < j => lexGreater(solutions[i], solutions[j])
    /\ (pc = "returned" /\ Satisfying(rowClues, colClues) # {}) =>
         /\ result.solutions # <<>>
         /\ \A g \in Satisfying(rowClues, colClues) :
              g = result.solutions[1] \/ lexGreater(result.solutions[1], g)

\* C21 witness: a call has returned two grids of a 2 x 2 clue set.
C21_Witness ==
    /\ pc = "returned"
    /\ Len(rowClues) = 2
    /\ Len(result.solutions) = 2
    /\ lexGreater(result.solutions[1], result.solutions[2])

\* The known cells of a line, in order.
knownCells(l) == SelectSeq(l, LAMBDA x : x # -1)

\* The lengths of the runs of known Filled cells: an Empty cell ends a run and
\* an Unknown cell is passed over.
knownRuns(l) ==
    IF runStarts(knownCells(l)) = {} THEN <<>> ELSE maximalRuns(knownCells(l))

\* C22: for a line with an Unknown cell, canMatchClues returns true exactly
\* when the runs of the known Filled cells are no more numerous than the
\* clue's entries and each run is at most as long as the clue value at its
\* index; a run closed by an Empty cell and shorter than its clue value is
\* accepted.
C22_CanMatchIffRunsFit ==
    canMatch # <<>> =>
        /\ canMatch[1] <=>
              /\ Len(knownRuns(partialLine)) <= Len(expected)
              /\ \A i \in 1..Len(knownRuns(partialLine)) :
                   knownRuns(partialLine)[i] <= expected[i]
        /\ (partialLine = <<1, 0, -1>> /\ expected = <<2>>) => canMatch[1]

\* C22 witness: a run of one cell closed by an Empty cell, under the clue 2.
C22_Witness ==
    /\ partialLine = <<1, 0, -1>>
    /\ expected = <<2>>
    /\ canMatch = <<TRUE>>

\* C23: for N >= 1, whenever the search reaches pos = N*N the fully assigned
\* grid has every row clue and every column clue, so isValidSolution does not
\* return false there.
C23_LeafAlwaysValid ==
    (pc = "running" /\ stack # <<>> /\ size >= 1 /\ top.pos >= size * size) =>
        /\ SolvesCall(grid)
        /\ isValidSolution(grid, rowClues, colClues) = "true"

\* C23 witness: the search is at pos = N*N of a 2 x 2 grid, and in the same
\* call a value was refused before.
C23_Witness ==
    /\ pc = "running"
    /\ stack # <<>>
    /\ size = 2
    /\ top.pos = size * size
    /\ \E i \in 1..(Len(stack) - 1) : stack[i].vi = 2

\* No grid is twice in the list.
noDuplicates(sols) == \A i, j \in 1..Len(sols) : i # j => sols[i] # sols[j]

\* A step of a running call keeps every recorded grid as it was recorded,
\* and the call returns the list it recorded.
recordedKept ==
    pc = "running" =>
        /\ Len(solutions') >= Len(solutions)
        /\ \A i \in 1..Len(solutions) : solutions'[i] = solutions[i]
        /\ pc' = "returned" => result'.solutions = solutions

knownPrefix(line) ==
    \A i, j \in 1..Len(line) : (i < j /\ line[j] # -1) => line[i] # -1

\* C30: at every entry to backtrack with position pos, every cell at a
\* row-major position below pos is Empty or Filled and every cell at pos or
\* above is Unknown; the known cells of every row and of every column form a
\* prefix of that line throughout the call.
C30_KnownCellsArePrefix ==
    /\ (pc = "running" /\ stack # <<>> /\ top.vi = 0) =>
         \A p \in 0..(size * size - 1) :
             IF p < top.pos THEN cellAt(grid, p) \in {0, 1}
                            ELSE cellAt(grid, p) = -1
    /\ pc = "running" =>
         \A k \in 1..size : knownPrefix(grid[k]) /\ knownPrefix(columnOf(grid, k))

\* C30 witness: backtrack is entered at the last cell of a 2 x 2 grid after
\* the search came back from a deeper position.
C30_Witness ==
    /\ pc = "running"
    /\ stack # <<>>
    /\ size = 2
    /\ top.vi = 0
    /\ top.pos = 3
    /\ \E i \in 1..(Len(stack) - 1) : stack[i].vi = 2
    /\ cellAt(grid, 3) = -1
    /\ \A p \in 0..2 : cellAt(grid, p) \in {0, 1}

\* The cell states of a Grid: empty, filled, marked.
CellStates == {0, 1, 2}

\* C25: after any sequence of mousedown (with any button), mouseenter and
\* mouseup events on an editable Grid, every cell of its data is 0, 1 or 2.
C25_CellsAreStates ==
    editorGrid # <<>> =>
        \A r \in 1..editorGrid[1].size : \A c \in 1..editorGrid[1].size :
            editorGrid[1].data[r][c] \in CellStates

\* C26: in editor mode, after any sequence of cell edits, clear-grid actions
\* and size changes, the row and column clues the editor grid holds are
\* calculateAll of its current data.
C26_EditorCluesDerived ==
    editorGrid # <<>> =>
        /\ editorGrid[1].rowClues = calculateAll(editorGrid[1].data).rowClues
        /\ editorGrid[1].colClues = calculateAll(editorGrid[1].data).colClues

\* The data of a grid with every cell that is not filled read as empty.
filledOnly(g) ==
    [r \in 1..g.size |-> [c \in 1..g.size |-> IF g.data[r][c] = 1 THEN 1 ELSE 0]]

\* Every clue indicator of the grid is shown as satisfied.
allSatisfied(g) ==
    \A k \in 1..g.size : g.rowSatisfied[k] /\ g.colSatisfied[k]

\* A cell edit of the random grid: the same puzzle, other data.
randomEdit ==
    /\ randomGrid # <<>>
    /\ randomGrid' # <<>>
    /\ randomPuzzle' = randomPuzzle
    /\ randomGrid'[1].data # randomGrid[1].data

loadErrors ==
    {"Error loading puzzle: " \o e :
        e \in {"Invalid puzzle format", "Puzzle size must be 10 or 15",
               "Puzzle dimensions do not match specified size"}}

\* C28: when loadPuzzle rejects a record with a validation error, the puzzle
\* loaded before and the player's grid with its cell states and clues are
\* left as they were.
C28_RejectedLoadKeepsState ==
    [][(message' # message /\ message' \in loadErrors) =>
          (currentPuzzle' = currentPuzzle /\ playerGrid' = playerGrid)]_vars

\* C28 witness: a record was rejected while a puzzle was loaded and a cell of
\* the player's grid was filled.
C28_Witness ==
    /\ message = "Error loading puzzle: Puzzle size must be 10 or 15"
    /\ currentPuzzle # <<>>
    /\ playerGrid # <<>>
    /\ playerGrid[1].data[1][1] = 1
    /\ playerGrid[1].rowClues = calculateAll(currentPuzzle[1].solution).rowClues

\* The cells of the editor grid that a step changes.
editorCellsChanged ==
    {cell \in (1..editorGrid[1].size) \X (1..editorGrid[1].size) :
        editorGrid'[1].data[cell[1]][cell[2]] # editorGrid[1].data[cell[1]][cell[2]]}

\* C29: on an editable Grid a mouseenter event changes a cell only between a
\* mousedown and the following mouseup, and it sets the cell to the state that
\* mousedown applied to its own cell; after a mouseup, and on a grid that got
\* no mousedown yet, a mouseenter changes no cell.
C29_EnterOnlyDuringDrag ==
    [][EditorMouseEnter =>
          /\ editorPressed = <<>> => editorGrid'[1].data = editorGrid[1].data
          /\ \A cell \in editorCellsChanged :
               /\ editorPressed # <<>>
               /\ editorGrid'[1].data[cell[1]][cell[2]] = editorPressed[1]]_vars

\* C29 witness: during a drag that began by marking a cell, two cells are
\* marked.
C29_Witness ==
    /\ editorGrid # <<>>
    /\ editorPressed = <<2>>
    /\ editorGrid[1].isDragging
    /\ editorGrid[1].data[1][1] = 2
    /\ editorGrid[1].data[1][2] = 2

====
